---- MODULE Spec2Model ----
(***************************************************************************)
(* Capability discovery of pyftms: pyftms/client/properties/features.py.   *)
(*                                                                         *)
(* read_features reads the 8-byte Fitness Machine Feature characteristic,  *)
(* decodes it into the two strict flag sets MachineFeatures and            *)
(* MachineSettings, and prunes the settings (range characteristic absent,  *)
(* setting untypical for the machine type).  read_supported_ranges reads   *)
(* the range characteristic of every range-bearing setting it is given.    *)
(*                                                                         *)
(* A flag value is modelled as the set of its members.  A coroutine runs   *)
(* atomically from one await to the next; the transport (BleakClient) is   *)
(* the environment: it answers a read with bytes or with an error.         *)
(***************************************************************************)
EXTENDS Integers, Sequences, FiniteSets

VARIABLES
    pc,         \* "idle", "rf_wait", "rr_wait", "done", "failed"
    op,         \* the coroutine that was called
    mt,         \* read_features: the MachineType flags of the device
    services,   \* the characteristics cli.services knows
    given,      \* read_supported_ranges: its settings argument
    data,       \* the bytes of the last answered read
    cur,        \* read_supported_ranges: index of the setting being read
    result,     \* read_supported_ranges: the dict under construction
    ret,        \* the value returned to the caller
    err,        \* the exception raised to the caller
    reads,      \* every read_gatt_char issued, in order
    pending,    \* the reads issued and not yet answered
    faults,     \* the reads the transport failed, in order
    negIn,      \* negotiation applied to a settings value: the value,
    negOnce,    \*   its negotiation,
    negTwice    \*   and the negotiation of that

vars == <<pc, op, mt, services, given, data, cur, result, ret, err, reads,
          pending, faults, negIn, negOnce, negTwice>>

-----------------------------------------------------------------------------
(* Bounds of the model *)

\* the highest bit position a device sets in a word of the feature record
MaxBit == 17

-----------------------------------------------------------------------------
(* The flag types *)

\* members in declaration order: auto() gives the k-th member the bit k-1
MachineFeatures ==
    << "AVERAGE_SPEED", "CADENCE", "DISTANCE", "INCLINATION",
       "ELEVATION_GAIN", "PACE", "STEP_COUNT", "RESISTANCE", "STRIDE_COUNT",
       "EXPENDED_ENERGY", "HEART_RATE", "METABOLIC_EQUIVALENT",
       "ELAPSED_TIME", "REMAINING_TIME", "POWER_MEASUREMENT",
       "FORCE_ON_BELT_AND_POWER_OUTPUT", "USER_DATA_RETENTION" >>

MachineSettings ==
    << "SPEED", "INCLINE", "RESISTANCE", "POWER", "HEART_RATE", "ENERGY",
       "STEPS", "STRIDES", "DISTANCE", "TIME", "TIME_TWO_ZONES",
       "TIME_THREE_ZONES", "TIME_FIVE_ZONES", "BIKE_SIMULATION",
       "CIRCUMFERENCE", "SPIN_DOWN", "CADENCE" >>

\* the machine types read_features tests for
MachineType == {"TREADMILL", "CROSS_TRAINER", "INDOOR_BIKE", "ROWER"}

Members(flags) == {flags[i] : i \in 1..Len(flags)}

BitOf(flags, m) == CHOOSE b \in 0..(Len(flags) - 1) : flags[b + 1] = m

-----------------------------------------------------------------------------
(* Bytes and words *)

\* the value of bit n of a byte
Pow2(n) == << 1, 2, 4, 8, 16, 32, 64, 128 >>[n + 1]

TestBit(byte, j) == (byte \div Pow2(j)) % 2 = 1

\* NumSerializer("u4").deserialize: 4 bytes, little-endian, unsigned.  The
\* word is kept as the set of its set bit positions: byte i (from 0) holds
\* the bits 8i .. 8i+7.
U4Bits(bytes, off) ==
    {b \in 0..31 : TestBit(bytes[off + (b \div 8) + 1], b % 8)}

\* Faulty variant of Flag: boundary=CONFORM, bits without a member are dropped
FlagConform(flags, bits) ==
    [error |-> FALSE,
     value |-> {flags[b + 1] : b \in bits \cap (0..(Len(flags) - 1))}]

\* The flags' constructor: the members whose bits are set.  With
\* boundary=STRICT a bit that no member has is a ValueError.
Flag(flags, bits) ==
    [error |-> \E b \in bits : b >= Len(flags),
     value |-> {flags[b + 1] : b \in bits \cap (0..(Len(flags) - 1))}]

-----------------------------------------------------------------------------
(* The characteristics *)

FEATURE_UUID == "FEATURE_UUID"

\* the five settings with a range characteristic, in the order both
\* coroutines test them
RangeSettings == << "SPEED", "INCLINE", "RESISTANCE", "POWER", "HEART_RATE" >>

\* the range characteristic read_features looks for
PresenceUuid(s) ==
    CASE s = "SPEED"      -> "SPEED_RANGE_UUID"
      [] s = "INCLINE"    -> "INCLINATION_RANGE_UUID"
      [] s = "RESISTANCE" -> "RESISTANCE_LEVEL_RANGE_UUID"
      [] s = "POWER"      -> "POWER_RANGE_UUID"
      [] s = "HEART_RATE" -> "HEART_RATE_RANGE_UUID"

RangeUuids == {PresenceUuid(RangeSettings[i]) : i \in 1..Len(RangeSettings)}

-----------------------------------------------------------------------------
(* read_features: the pruning of the settings *)

\* Faulty variant of RemoveWithoutRange: "settings ^= X" under the inner
\* test alone
RemoveWithoutRangeToggle(settings, s, svc) ==
    IF PresenceUuid(s) \notin svc
    THEN (settings \ {s}) \cup ({s} \ settings)
    ELSE settings

\* Faulty variant of RemoveWithoutRange: the inner test is missing
RemoveWithoutRangeAlways(settings, s, svc) == settings \ {s}

\* one "if X in settings: if get_characteristic(uuid) is None:
\* settings &= ~X" block
RemoveWithoutRange(settings, s, svc) ==
    IF s \in settings /\ PresenceUuid(s) \notin svc
    THEN settings \ {s}
    ELSE settings

\* Faulty variant of PresencePrune: the heart rate block is missing
PresencePruneNoHeartRate(settings, svc) ==
    LET s1 == RemoveWithoutRange(settings, "SPEED", svc)
        s2 == RemoveWithoutRange(s1, "INCLINE", svc)
        s3 == RemoveWithoutRange(s2, "RESISTANCE", svc)
    IN  RemoveWithoutRange(s3, "POWER", svc)

\* "Remove settings without ranges UUIDs": the five blocks in sequence
PresencePrune(settings, svc) ==
    LET s1 == RemoveWithoutRange(settings, "SPEED", svc)
        s2 == RemoveWithoutRange(s1, "INCLINE", svc)
        s3 == RemoveWithoutRange(s2, "RESISTANCE", svc)
        s4 == RemoveWithoutRange(s3, "POWER", svc)
    IN  RemoveWithoutRange(s4, "HEART_RATE", svc)

\* Faulty variant of CategoryPrune: the indoor bike has the treadmill's rule
CategoryPruneBikeRule(settings, m) ==
    IF "TREADMILL" \in m THEN settings \ {"RESISTANCE", "POWER"}
    ELSE IF "CROSS_TRAINER" \in m THEN settings \ {"SPEED", "INCLINE"}
    ELSE IF "INDOOR_BIKE" \in m THEN settings \ {"RESISTANCE", "POWER"}
    ELSE IF "ROWER" \in m THEN settings \ {"SPEED", "INCLINE"}
    ELSE settings

\* Faulty variant of CategoryPrune: four "if" instead of the if / elif chain
CategoryPruneEveryRule(settings, m) ==
    LET s1 == IF "TREADMILL" \in m
              THEN settings \ {"RESISTANCE", "POWER"} ELSE settings
    IN  IF m \cap {"CROSS_TRAINER", "INDOOR_BIKE", "ROWER"} # {}
        THEN s1 \ {"SPEED", "INCLINE"} ELSE s1

\* Faulty variant of CategoryPrune: "settings ^= ..." for "settings &= ~..."
CategoryPruneToggle(settings, m) ==
    LET Toggle(x) == (settings \ x) \cup (x \ settings)
    IN  IF "TREADMILL" \in m THEN Toggle({"RESISTANCE", "POWER"})
        ELSE IF "CROSS_TRAINER" \in m THEN Toggle({"SPEED", "INCLINE"})
        ELSE IF "INDOOR_BIKE" \in m THEN Toggle({"SPEED", "INCLINE"})
        ELSE IF "ROWER" \in m THEN Toggle({"SPEED", "INCLINE"})
        ELSE settings

\* "Remove untypical settings": the if / elif chain over the machine type
CategoryPrune(settings, m) ==
    IF "TREADMILL" \in m THEN settings \ {"RESISTANCE", "POWER"}
    ELSE IF "CROSS_TRAINER" \in m THEN settings \ {"SPEED", "INCLINE"}
    ELSE IF "INDOOR_BIKE" \in m THEN settings \ {"SPEED", "INCLINE"}
    ELSE IF "ROWER" \in m THEN settings \ {"SPEED", "INCLINE"}
    ELSE settings

Negotiate(settings, m, svc) == CategoryPrune(PresencePrune(settings, svc), m)

-----------------------------------------------------------------------------
(* What a call returns or raises *)

NoRanges == [k \in {} |-> <<0, 0, 0>>]

NoReturn == [kind |-> "none", features |-> {}, settings |-> {},
             ranges |-> NoRanges]

ReturnFeatures(f, s) == [kind |-> "features", features |-> f, settings |-> s,
                         ranges |-> NoRanges]

ReturnRanges(r) == [kind |-> "ranges", features |-> {}, settings |-> {},
                    ranges |-> r]

\* the coroutine ends with exception e: nothing is returned
Raise(e) ==
    /\ pc' = "failed"
    /\ err' = e
    /\ ret' = NoReturn

\* the coroutine ends with value v
Return(v) ==
    /\ pc' = "done"
    /\ err' = "none"
    /\ ret' = v

-----------------------------------------------------------------------------
(* The devices and their answers *)

\* the byte with the bits 8i .. 8i+7 of a word
ByteOf(bits, i) ==
    LET sum[j \in -1..7] ==
            IF j = -1 THEN 0
            ELSE sum[j - 1] + (IF 8 * i + j \in bits THEN Pow2(j) ELSE 0)
    IN  sum[7]

WordBytes(bits) == [i \in 1..4 |-> ByteOf(bits, i - 1)]

\* settings words: every combination of the five range-bearing settings,
\* alone or with one more bit
SettingsWords ==
    {low \cup high :
        low \in SUBSET (0..4),
        high \in {{}} \cup {{b} : b \in {5, 31} \cup (16..MaxBit)}}

\* features words: empty or one high bit
FeaturesWords == {{}} \cup {{b} : b \in {31} \cup (16..MaxBit)}

\* the contents of the feature characteristic: well-formed records (one of
\* the two words has no bit above the range-bearing settings), a short
\* record and a long one
FeatureRecords ==
    {WordBytes(f) \o WordBytes(s) :
        f \in {{}}, s \in SettingsWords}
    \cup {WordBytes(f) \o WordBytes(s) :
        f \in FeaturesWords, s \in SUBSET (0..4)}
    \cup {<<0, 0, 0, 0, 1, 0, 0>>, <<0, 0, 0, 0, 1, 0, 0, 0, 0>>}

\* the characteristics a device has
Devices == SUBSET ({FEATURE_UUID} \cup RangeUuids)

-----------------------------------------------------------------------------
(* read_features *)

\* the call up to the await: the characteristic is looked up and, when it
\* exists, its read is issued
CallReadFeatures(m, svc) ==
    /\ pc = "idle"
    /\ UNCHANGED faults
    /\ op' = "read_features"
    /\ mt' = m
    /\ services' = svc
    /\ IF FEATURE_UUID \notin svc
       THEN /\ Raise("CharacteristicNotFound")
            /\ UNCHANGED <<reads, pending>>
       ELSE /\ pc' = "rf_wait"
            /\ reads' = Append(reads, FEATURE_UUID)
            /\ pending' = pending \cup {FEATURE_UUID}
            /\ UNCHANGED <<err, ret>>
    /\ UNCHANGED <<given, data, cur, result, negIn, negOnce, negTwice>>

\* the read is answered with bytes: the rest of read_features ("assert" as
\* the interpreter runs it by default: a record that is not 8 bytes long is
\* an AssertionError)
FeaturesReply(bytes) ==
    /\ pc = "rf_wait"
    /\ pending' = pending \ {FEATURE_UUID}
    /\ data' = bytes
    /\ IF Len(bytes) # 8
       THEN Raise("AssertionError")
       ELSE LET features == Flag(MachineFeatures, U4Bits(bytes, 0))
                settings == Flag(MachineSettings, U4Bits(bytes, 4))
            IN  IF features.error \/ settings.error
                THEN Raise("ValueError")
                ELSE Return(ReturnFeatures(
                                features.value,
                                Negotiate(settings.value, mt, services)))
    /\ UNCHANGED <<op, mt, services, given, cur, result, reads, faults, negIn,
                   negOnce, negTwice>>

\* the read fails: the transport's exception leaves read_features
FeaturesReadError ==
    /\ pc = "rf_wait"
    /\ pending' = pending \ {FEATURE_UUID}
    /\ faults' = Append(faults, FEATURE_UUID)
    /\ Raise("TransportError")
    /\ UNCHANGED <<op, mt, services, given, data, cur, result, reads, negIn,
                   negOnce, negTwice>>

-----------------------------------------------------------------------------
(* read_supported_ranges *)

\* Faulty variant of RangeBlocks: the power block before the resistance block
RangeBlocksSwapped ==
    << [setting |-> "SPEED", key |-> "TARGET_SPEED",
        uuid |-> "SPEED_RANGE_UUID", size |-> 2, signed |-> FALSE, dec |-> 2],
       [setting |-> "INCLINE", key |-> "TARGET_INCLINATION",
        uuid |-> "INCLINATION_RANGE_UUID", size |-> 2, signed |-> TRUE, dec |-> 1],
       [setting |-> "POWER", key |-> "TARGET_POWER",
        uuid |-> "POWER_RANGE_UUID", size |-> 2, signed |-> TRUE, dec |-> 0],
       [setting |-> "RESISTANCE", key |-> "TARGET_RESISTANCE",
        uuid |-> "RESISTANCE_LEVEL_RANGE_UUID", size |-> 2, signed |-> TRUE, dec |-> 1],
       [setting |-> "HEART_RATE", key |-> "TARGET_HEART_RATE",
        uuid |-> "HEART_RATE_RANGE_UUID", size |-> 1, signed |-> FALSE, dec |-> 0] >>

\* the five "if X in settings: result[KEY] = await _range(UUID, num)"
\* blocks in program order; num is given as size in bytes, signedness and
\* number of decimals
RangeBlocks ==
    << [setting |-> "SPEED", key |-> "TARGET_SPEED",
        uuid |-> "SPEED_RANGE_UUID", size |-> 2, signed |-> FALSE, dec |-> 2],
       [setting |-> "INCLINE", key |-> "TARGET_INCLINATION",
        uuid |-> "INCLINATION_RANGE_UUID", size |-> 2, signed |-> TRUE, dec |-> 1],
       [setting |-> "RESISTANCE", key |-> "TARGET_RESISTANCE",
        uuid |-> "RESISTANCE_LEVEL_RANGE_UUID", size |-> 2, signed |-> TRUE, dec |-> 1],
       [setting |-> "POWER", key |-> "TARGET_POWER",
        uuid |-> "POWER_RANGE_UUID", size |-> 2, signed |-> TRUE, dec |-> 0],
       [setting |-> "HEART_RATE", key |-> "TARGET_HEART_RATE",
        uuid |-> "HEART_RATE_RANGE_UUID", size |-> 1, signed |-> FALSE, dec |-> 0] >>

\* NumSerializer.deserialize of the n-th number (from 0) of a buffer:
\* little-endian, two's complement when signed; the result counts units of
\* 10^-dec
Deserialize(bytes, n, b) ==
    LET u == IF b.size = 1 THEN bytes[n + 1]
             ELSE bytes[2 * n + 1] + 256 * bytes[2 * n + 2]
        half == IF b.size = 1 THEN 128 ELSE 32768
    IN  IF b.signed /\ u >= half THEN u - 2 * half ELSE u

\* _range after its await: three numbers (a buffer that ends before the
\* third is an error of the serializer), then "assert not bio.read(1)"
DecodeRange(bytes, b) ==
    IF Len(bytes) < 3 * b.size
    THEN [error |-> "EOFError", value |-> <<0, 0, 0>>]
    ELSE IF Len(bytes) > 3 * b.size
    THEN [error |-> "AssertionError", value |-> <<0, 0, 0>>]
    ELSE [error |-> "none",
          value |-> << Deserialize(bytes, 0, b), Deserialize(bytes, 1, b),
                       Deserialize(bytes, 2, b) >>]

\* Faulty variant of BlockTaken: the block's "if" is missing
BlockTakenAlways(settings, i) == TRUE

\* the condition of block i
BlockTaken(settings, i) == RangeBlocks[i].setting \in settings

\* the first block from block i on whose condition holds, 0 if none
NextBlock(settings, i) ==
    LET taken == {j \in i..Len(RangeBlocks) : BlockTaken(settings, j)}
    IN  IF taken = {} THEN 0
        ELSE CHOOSE j \in taken : \A k \in taken : j <= k

\* read_supported_ranges(settings) from block i to its next await or its
\* return; res is the dict so far and unanswered the reads still unanswered
RunBlocks(settings, i, res, unanswered) ==
    LET j == NextBlock(settings, i)
    IN  /\ result' = res
        /\ IF j = 0
           THEN /\ Return(ReturnRanges(res))
                /\ cur' = 0
                /\ pending' = unanswered
                /\ UNCHANGED reads
           ELSE /\ pc' = "rr_wait"
                /\ cur' = j
                /\ reads' = Append(reads, RangeBlocks[j].uuid)
                /\ pending' = unanswered \cup {RangeBlocks[j].uuid}
                /\ UNCHANGED <<err, ret>>

\* the call up to the first await (or to the return when no block is taken)
CallReadSupportedRanges(settings, svc) ==
    /\ pc = "idle"
    /\ op' = "read_supported_ranges"
    /\ given' = settings
    /\ services' = svc
    /\ RunBlocks(settings, 1, NoRanges, pending)
    /\ UNCHANGED <<mt, data, faults, negIn, negOnce, negTwice>>

\* Faulty variant of RangeReadFailed: the exception is caught and the blocks
\* after cur run
RangeReadSkipped ==
    RunBlocks(given, cur + 1, result, pending \ {RangeBlocks[cur].uuid})

\* the exception of a failed read leaves _range and read_supported_ranges
RangeReadFailed ==
    /\ Raise("TransportError")
    /\ pending' = pending \ {RangeBlocks[cur].uuid}
    /\ UNCHANGED <<cur, result, reads>>

\* the transport fails the read of block cur
RangeReadError ==
    /\ pc = "rr_wait"
    /\ faults' = Append(faults, RangeBlocks[cur].uuid)
    /\ RangeReadFailed
    /\ UNCHANGED <<op, mt, services, given, data, negIn, negOnce, negTwice>>

\* the transport answers the read of block cur with bytes: _range decodes
\* them, the range is stored and the blocks after cur run
RangeReply(bytes) ==
    /\ pc = "rr_wait"
    /\ RangeBlocks[cur].uuid \in services
    /\ data' = bytes
    /\ UNCHANGED <<op, mt, services, given, faults, negIn, negOnce, negTwice>>
    /\ LET r == DecodeRange(bytes, RangeBlocks[cur])
       IN  IF r.error # "none"
           THEN /\ Raise(r.error)
                /\ pending' = pending \ {RangeBlocks[cur].uuid}
                /\ UNCHANGED <<cur, result, reads>>
           ELSE RunBlocks(given, cur + 1,
                    [k \in DOMAIN result \cup {RangeBlocks[cur].key} |->
                        IF k = RangeBlocks[cur].key THEN r.value ELSE result[k]],
                    pending \ {RangeBlocks[cur].uuid})

\* a range characteristic's contents: its well-formed value, the value cut
\* short and the value with a byte after it
RangeValue(uuid) ==
    CASE uuid = "SPEED_RANGE_UUID"            -> << 100, 0, 208, 7, 10, 0 >>
      [] uuid = "INCLINATION_RANGE_UUID"      -> << 206, 255, 150, 0, 5, 0 >>
      [] uuid = "RESISTANCE_LEVEL_RANGE_UUID" -> << 10, 0, 200, 0, 10, 0 >>
      [] uuid = "POWER_RANGE_UUID"            -> << 0, 0, 100, 0, 1, 0 >>
      [] uuid = "HEART_RATE_RANGE_UUID"       -> << 40, 200, 1 >>

RangeRecords(uuid) ==
    { RangeValue(uuid),
      SubSeq(RangeValue(uuid), 1, Len(RangeValue(uuid)) - 1),
      Append(RangeValue(uuid), 0) }

\* the settings values read_supported_ranges is called with
SettingsValues ==
    {Flag(MachineSettings, w).value :
        w \in {x \in SettingsWords : ~Flag(MachineSettings, x).error}}

-----------------------------------------------------------------------------
(* The calls and the transport's answers *)

Init ==
    /\ pc = "idle"
    /\ op = "none"
    /\ mt = {}
    /\ services = {}
    /\ given = {}
    /\ data = <<>>
    /\ cur = 0
    /\ result = NoRanges
    /\ ret = NoReturn
    /\ err = "none"
    /\ reads = <<>>
    /\ pending = {}
    /\ faults = <<>>
    /\ negIn = {}
    /\ negOnce = {}
    /\ negTwice = {}

ReadFeaturesCalled ==
    /\ pc = "idle"
    /\ \E m \in SUBSET MachineType, svc \in Devices : CallReadFeatures(m, svc)

FeaturesAnswered ==
    /\ pc = "rf_wait"
    /\ \E bytes \in FeatureRecords : FeaturesReply(bytes)

ReadSupportedRangesCalled ==
    /\ pc = "idle"
    /\ \E s \in SettingsValues, svc \in SUBSET RangeUuids :
           CallReadSupportedRanges(s, svc)

RangeAnswered ==
    /\ pc = "rr_wait"
    /\ \E bytes \in RangeRecords(RangeBlocks[cur].uuid) : RangeReply(bytes)

Next ==
    \/ ReadFeaturesCalled
    \/ FeaturesAnswered
    \/ FeaturesReadError
    \/ ReadSupportedRangesCalled
    \/ RangeAnswered
    \/ RangeReadError

Spec == Init /\ [][Next]_vars

-----------------------------------------------------------------------------
(* Negotiation as a function: read_features' pruning applied to a settings *)
(* value, and again to what it gave, for one machine type and one device   *)

InitNegotiate ==
    /\ pc = "negotiate"
    /\ op = "negotiate"
    /\ mt \in SUBSET MachineType
    /\ services \in SUBSET RangeUuids
    /\ negIn \in SettingsValues
    /\ negOnce = {}
    /\ negTwice = {}
    /\ given = {}
    /\ data = <<>>
    /\ cur = 0
    /\ result = NoRanges
    /\ ret = NoReturn
    /\ err = "none"
    /\ reads = <<>>
    /\ pending = {}
    /\ faults = <<>>

NegotiateOnce ==
    /\ pc = "negotiate"
    /\ pc' = "negotiated"
    /\ negOnce' = Negotiate(negIn, mt, services)
    /\ UNCHANGED <<op, mt, services, given, data, cur, result, ret, err, reads,
                   pending, faults, negIn, negTwice>>

NegotiateAgain ==
    /\ pc = "negotiated"
    /\ pc' = "renegotiated"
    /\ negTwice' = Negotiate(negOnce, mt, services)
    /\ UNCHANGED <<op, mt, services, given, data, cur, result, ret, err, reads,
                   pending, faults, negIn, negOnce>>

NextNegotiate == NegotiateOnce \/ NegotiateAgain

SpecNegotiate == InitNegotiate /\ [][NextNegotiate]_vars

-----------------------------------------------------------------------------
(* The vocabulary of the properties *)

RangeBearing == {"SPEED", "INCLINE", "RESISTANCE", "POWER", "HEART_RATE"}

\* the range characteristic of a range-bearing setting
DescriptorOf(s) ==
    CASE s = "SPEED"      -> "SPEED_RANGE_UUID"
      [] s = "INCLINE"    -> "INCLINATION_RANGE_UUID"
      [] s = "RESISTANCE" -> "RESISTANCE_LEVEL_RANGE_UUID"
      [] s = "POWER"      -> "POWER_RANGE_UUID"
      [] s = "HEART_RATE" -> "HEART_RATE_RANGE_UUID"

\* the key of a range-bearing setting in the table of ranges
KeyOf(s) ==
    CASE s = "SPEED"      -> "TARGET_SPEED"
      [] s = "INCLINE"    -> "TARGET_INCLINATION"
      [] s = "RESISTANCE" -> "TARGET_RESISTANCE"
      [] s = "POWER"      -> "TARGET_POWER"
      [] s = "HEART_RATE" -> "TARGET_HEART_RATE"

\* the order of the range reads
ReadOrder == << "SPEED_RANGE_UUID", "INCLINATION_RANGE_UUID",
                "RESISTANCE_LEVEL_RANGE_UUID", "POWER_RANGE_UUID",
                "HEART_RATE_RANGE_UUID" >>

RankOf(uuid) == CHOOSE i \in 1..Len(ReadOrder) : ReadOrder[i] = uuid

\* the order in which the categories are tried, and each category's rule
CategoryOrder == << "TREADMILL", "CROSS_TRAINER", "INDOOR_BIKE", "ROWER" >>

FirstClaimed(m) ==
    CategoryOrder[CHOOSE i \in 1..Len(CategoryOrder) :
                     /\ CategoryOrder[i] \in m
                     /\ \A j \in 1..(i - 1) : CategoryOrder[j] \notin m]

RuleOf(c) ==
    IF c = "TREADMILL" THEN {"RESISTANCE", "POWER"} ELSE {"SPEED", "INCLINE"}

\* read_features got an 8-byte record
RecordRead == op = "read_features" /\ Len(data) = 8

\* read_features returned
FeaturesReturned == op = "read_features" /\ pc = "done"

\* the settings the record advertises
Advertised ==
    {MachineSettings[b + 1] : b \in U4Bits(data, 4) \cap (0..16)}

\* the advertised settings that are not range-bearing with the range
\* characteristic absent
Usable ==
    {s \in Advertised : s \in RangeBearing => DescriptorOf(s) \in services}

RangesCalled == op = "read_supported_ranges"

\* the keys of the range-bearing settings given to read_supported_ranges
GivenKeys == {KeyOf(s) : s \in given \cap RangeBearing}

-----------------------------------------------------------------------------
(* Properties *)

\* C1 as stated: an 8-byte record with a bit at position 16 or higher set in
\* the features word or in the settings word makes read_features fail with
\* the undefined-flag error and return nothing.
C1_AsStated ==
    (RecordRead /\ \E b \in U4Bits(data, 0) \cup U4Bits(data, 4) : b >= 16)
        => (pc = "failed" /\ err = "ValueError" /\ ret = NoReturn)

\* C1 (amended): an 8-byte record with a bit at position 17 or higher set in
\* the features word or in the settings word makes read_features fail with
\* the undefined-flag error and return nothing; bit 16 is a member of both
\* flag sets (USER_DATA_RETENTION, CADENCE) and is accepted.
C1_Strictness ==
    /\ (RecordRead /\ \E b \in U4Bits(data, 0) \cup U4Bits(data, 4) : b >= 17)
          => (pc = "failed" /\ err = "ValueError" /\ ret = NoReturn)
    /\ (RecordRead /\ \A b \in U4Bits(data, 0) \cup U4Bits(data, 4) : b <= 16)
          => (pc = "done" /\ err = "none")

C1_Witness ==
    /\ RecordRead
    /\ 17 \in U4Bits(data, 4)
    /\ U4Bits(data, 0) = {}
    /\ err = "ValueError"

\* C2: the settings read_features returns assert a range-bearing setting
\* only if the device has that setting's range characteristic.
C2_PresencePruning ==
    FeaturesReturned =>
        \A s \in RangeBearing :
            s \in ret.settings => DescriptorOf(s) \in services

C2_Witness ==
    /\ FeaturesReturned
    /\ mt = {}
    /\ {"SPEED", "HEART_RATE"} \subseteq Advertised
    /\ "SPEED_RANGE_UUID" \in services
    /\ "HEART_RATE_RANGE_UUID" \notin services
    /\ "SPEED" \in ret.settings
    /\ "HEART_RATE" \notin ret.settings

\* C3: for a treadmill the returned settings never assert resistance or
\* power; for a cross trainer, indoor bike or rower that is no treadmill
\* they never assert speed or incline; speed, incline and resistance
\* advertised by an indoor bike with only the speed range characteristic
\* gives the empty set.
C3_CategoryExclusivity ==
    FeaturesReturned =>
        /\ "TREADMILL" \in mt
              => ret.settings \cap {"RESISTANCE", "POWER"} = {}
        /\ ("TREADMILL" \notin mt
               /\ mt \cap {"CROSS_TRAINER", "INDOOR_BIKE", "ROWER"} # {})
              => ret.settings \cap {"SPEED", "INCLINE"} = {}
        /\ (/\ Advertised = {"SPEED", "INCLINE", "RESISTANCE"}
            /\ mt = {"INDOOR_BIKE"}
            /\ services \cap RangeUuids = {"SPEED_RANGE_UUID"})
              => ret.settings = {}

C3_Witness ==
    /\ FeaturesReturned
    /\ Advertised = {"SPEED", "INCLINE", "RESISTANCE"}
    /\ mt = {"INDOOR_BIKE"}
    /\ services \cap RangeUuids = {"SPEED_RANGE_UUID"}
    /\ ret.settings = {}

\* C4: the settings read_features returns are a subset of the settings the
\* record advertises.
C4_Monotonicity == FeaturesReturned => ret.settings \subseteq Advertised

C4_Witness ==
    /\ FeaturesReturned
    /\ Cardinality(mt) >= 2
    /\ ret.settings # {}
    /\ ret.settings # Advertised
    /\ ret.settings \subseteq Advertised

\* C5: of a device with several categories only the rule of the first one,
\* in the order treadmill, cross trainer, indoor bike, rower, is applied:
\* the settings of that rule are cleared and the usable settings named only
\* in the rule of another claimed category are kept.
C5_FirstMatch ==
    (FeaturesReturned /\ Cardinality(mt) >= 2) =>
        /\ ret.settings \cap RuleOf(FirstClaimed(mt)) = {}
        /\ \A c \in mt :
              (Usable \cap RuleOf(c)) \ RuleOf(FirstClaimed(mt))
                  \subseteq ret.settings

C5_Witness ==
    /\ FeaturesReturned
    /\ mt = {"TREADMILL", "INDOOR_BIKE"}
    /\ {"SPEED", "INCLINE", "RESISTANCE", "POWER"} \subseteq Advertised
    /\ RangeUuids \subseteq services
    /\ {"SPEED", "INCLINE"} \subseteq ret.settings
    /\ ret.settings \cap {"RESISTANCE", "POWER"} = {}

\* C6: the keys of the table read_supported_ranges builds and of the table
\* it returns are keys of range-bearing settings it was given, and the
\* returned table has the key of every one of them.
C6_RangeKeys ==
    RangesCalled =>
        /\ DOMAIN result \subseteq GivenKeys
        /\ DOMAIN ret.ranges \subseteq GivenKeys
        /\ pc = "done" => (ret.kind = "ranges" /\ DOMAIN ret.ranges = GivenKeys)

C6_Witness ==
    /\ RangesCalled
    /\ pc = "done"
    /\ given = {"SPEED", "HEART_RATE", "CADENCE"}
    /\ DOMAIN ret.ranges = {"TARGET_SPEED", "TARGET_HEART_RATE"}

\* C7: read_supported_ranges issues its reads in the order speed, incline,
\* resistance, power, heart rate, one per asserted setting and none for
\* another, each at most once, a read only when every earlier read was
\* answered and its range stored, and never two reads at a time.
C7_SerializedReads ==
    RangesCalled =>
        /\ Cardinality(pending) <= 1
        /\ \A i, j \in 1..Len(reads) :
              i < j => RankOf(reads[i]) < RankOf(reads[j])
        /\ \A i \in 1..Len(reads) :
              \E s \in given \cap RangeBearing : reads[i] = DescriptorOf(s)
        /\ pc = "rr_wait" =>
              /\ pending = {reads[Len(reads)]}
              /\ \A s \in given \cap RangeBearing :
                    RankOf(DescriptorOf(s)) < RankOf(reads[Len(reads)])
                        => /\ \E i \in 1..(Len(reads) - 1) :
                                 reads[i] = DescriptorOf(s)
                           /\ KeyOf(s) \in DOMAIN result
        /\ pc # "rr_wait" => pending = {}
        /\ pc = "done" =>
              {reads[i] : i \in 1..Len(reads)}
                  = {DescriptorOf(s) : s \in given \cap RangeBearing}

C7_Witness ==
    /\ RangesCalled
    /\ pc = "rr_wait"
    /\ reads = << "SPEED_RANGE_UUID", "RESISTANCE_LEVEL_RANGE_UUID",
                  "POWER_RANGE_UUID" >>
    /\ "INCLINE" \notin given
    /\ DOMAIN result = {"TARGET_SPEED", "TARGET_RESISTANCE"}

\* C8: without the feature characteristic read_features fails with the
\* not-found error and issues no read; a failed read ends the coroutine
\* with the transport's error: the failed read is the last read issued, it
\* was issued once, and nothing is returned.
C8_FailFast ==
    /\ (op = "read_features" /\ FEATURE_UUID \notin services)
          => /\ pc = "failed"
             /\ err = "CharacteristicNotFound"
             /\ reads = <<>>
             /\ ret = NoReturn
    /\ faults # <<>>
          => /\ pc = "failed"
             /\ err = "TransportError"
             /\ ret = NoReturn
             /\ pending = {}
             /\ faults = << reads[Len(reads)] >>
             /\ \A i \in 1..(Len(reads) - 1) : reads[i] # reads[Len(reads)]

C8_Witness ==
    /\ RangesCalled
    /\ faults = << "POWER_RANGE_UUID" >>
    /\ "HEART_RATE" \in given
    /\ DOMAIN result = {"TARGET_SPEED", "TARGET_INCLINATION"}
    /\ ret = NoReturn
    /\ err = "TransportError"

\* C9: negotiating the result of a negotiation, with the same machine type
\* and the same characteristics, gives that result again.
C9_Idempotence == pc = "renegotiated" => negTwice = negOnce

C9_Witness ==
    /\ pc = "renegotiated"
    /\ Cardinality(mt) >= 2
    /\ negOnce # negIn
    /\ negOnce # {}
    /\ negOnce \cap RangeBearing # {}
    /\ negTwice = negOnce

\* C10: an advertised setting that read_features does not return is a
\* range-bearing setting without its range characteristic or a setting of
\* the rule of the first claimed category; the other settings are never
\* cleared, heart rate only for want of its characteristic, nothing is
\* cleared for the category when no category is claimed, and the features
\* returned are the members of the bits of the features word.
C10_NothingElseCleared ==
    FeaturesReturned =>
        /\ \A s \in Advertised \ ret.settings :
              \/ s \in RangeBearing /\ DescriptorOf(s) \notin services
              \/ mt # {} /\ s \in RuleOf(FirstClaimed(mt))
        /\ Advertised \ RangeBearing \subseteq ret.settings
        /\ ("HEART_RATE" \in Advertised /\ "HEART_RATE_RANGE_UUID" \in services)
              => "HEART_RATE" \in ret.settings
        /\ mt = {} => ret.settings = Usable
        /\ ret.features = {MachineFeatures[b + 1] : b \in U4Bits(data, 0)}

C10_Witness ==
    /\ FeaturesReturned
    /\ mt = {"ROWER"}
    /\ Advertised = {"SPEED", "POWER", "HEART_RATE", "CADENCE"}
    /\ RangeUuids \subseteq services
    /\ ret.settings = {"POWER", "HEART_RATE", "CADENCE"}

====
